---- MODULE Spec2Model ----
(***************************************************************************)
(* Azure RAGcelerator document pipeline: the index reconciliation          *)
(* (SearchIndexer.delete_by_source_path + SearchIndexer.upsert_chunks as   *)
(* DocumentProcessor.process runs them) against a shared search index,     *)
(* the batched embedding call (EmbeddingService.embed_texts) and the text  *)
(* splitter (TextSplitter).                                                *)
(*                                                                         *)
(* Strings are sequences of tokens: a path such as "docs/a.pdf" is         *)
(* <<"docs", "/", "a.pdf">>, so that the character replacement of          *)
(* Chunk.document_id is computed, not assumed.                             *)
(***************************************************************************)
EXTENDS Integers, Sequences, FiniteSets, TLC

(***************************************************************************)
(* Bounds of the model.                                                    *)
(***************************************************************************)
\* Most chunks one document is split into.
MaxChunks == 4

\* Invocations of DocumentProcessor.process (or of the indexer directly).
Procs == {"p1", "p2"}

\* Content versions a document can be reprocessed with (0 is the version
\* already indexed when the model starts).
Versions == {1, 2}

(***************************************************************************)
(* The index limits, as bounds of the model: the code has BATCH_SIZE = 1000 *)
(* and top = 10000, scaled down here so that several batches and a         *)
(* truncated query happen within MaxChunks.                                *)
(***************************************************************************)
BATCH_SIZE == 2
SEARCH_TOP == 3

\* Python's None is the empty tuple and a value x that may be None is <<x>>
\* (a value and its absence must be comparable).
None == <<>>
Some(x) == <<x>>

(***************************************************************************)
(* Source identifiers (blob URLs).  SrcSlash and SrcUnder differ only in a *)
(* character that Chunk.document_id replaces.                              *)
(***************************************************************************)
SrcSlash == <<"docs", "/", "a.pdf">>
SrcUnder == <<"docs", "_", "a.pdf">>
SrcOther == <<"b.pdf">>
Sources == {SrcSlash, SrcUnder, SrcOther}

Min(a, b) == IF a < b THEN a ELSE b

(***************************************************************************)
(* models.py: Chunk                                                        *)
(***************************************************************************)
\* str.replace(old, new) on a token sequence
Replace(s, old, new) == [i \in 1..Len(s) |-> IF s[i] = old THEN new ELSE s[i]]

\* Mutant: the key is the sanitised path alone.
document_id_NoIndex(source_path, chunk_id) ==
    Replace(Replace(source_path, "/", "_"), "\\", "_")

\* Chunk.document_id: f"{safe_path}#chunk_{chunk_id}"
document_id(source_path, chunk_id) ==
    LET safe_path == Replace(Replace(source_path, "/", "_"), "\\", "_")
    IN  safe_path \o <<"#chunk_", ToString(chunk_id)>>

\* blob_url.split("/")[-1]
RECURSIVE file_name(_)
file_name(blob_url) ==
    IF \A i \in 1..Len(blob_url) : blob_url[i] # "/"
    THEN blob_url
    ELSE file_name(Tail(blob_url))

\* The text of chunk i of version v of a document, and the vector the
\* embedding service computes for a text.
ContentOf(v, i) == <<"text", v, i>>
VectorOf(content) == <<"vec", content[2], content[3]>>

\* TextSplitter.split's result for a document of m chunks (ids 0..m-1, no
\* merged chunk of the document being blank).
ChunksOf(source_path, m, v) ==
    [n \in 1..m |-> [chunk_id     |-> n - 1,
                     content      |-> ContentOf(v, n - 1),
                     source_path  |-> source_path,
                     file_name    |-> file_name(source_path),
                     total_chunks |-> m,
                     embedding    |-> None]]

\* Mutant: the key of a document carries the time of the run.
to_search_document_TimedKey(chunk, processed_at) ==
    [id            |-> document_id(chunk.source_path, chunk.chunk_id)
                           \o <<ToString(processed_at)>>,
     content       |-> chunk.content,
     sourcePath    |-> chunk.source_path,
     fileName      |-> chunk.file_name,
     chunkId       |-> chunk.chunk_id,
     processedAt   |-> processed_at,
     totalChunks   |-> chunk.total_chunks]

\* Chunk.to_search_document(processed_at)
to_search_document(chunk, processed_at) ==
    IF chunk.embedding # None
    THEN [id            |-> document_id(chunk.source_path, chunk.chunk_id),
          content       |-> chunk.content,
          sourcePath    |-> chunk.source_path,
          fileName      |-> chunk.file_name,
          chunkId       |-> chunk.chunk_id,
          processedAt   |-> processed_at,
          contentVector |-> chunk.embedding[1],
          totalChunks   |-> chunk.total_chunks]
    ELSE [id            |-> document_id(chunk.source_path, chunk.chunk_id),
          content       |-> chunk.content,
          sourcePath    |-> chunk.source_path,
          fileName      |-> chunk.file_name,
          chunkId       |-> chunk.chunk_id,
          processedAt   |-> processed_at,
          totalChunks   |-> chunk.total_chunks]

(***************************************************************************)
(* embeddings/azure_openai.py: EmbeddingService.  A text is a sequence of  *)
(* characters.                                                             *)
(***************************************************************************)
MAX_RETRIES == 3
INITIAL_RETRY_DELAY == 1
MAX_RETRY_DELAY == 60

\* _embed_batch line 181: max_chars = 30000, as a bound of the model scaled
\* down to the texts below.
MAX_CHARS == 3

\* Most texts in one embed_texts call, and the largest batch size.
MaxTexts == 3
MaxBatchSize == 3

\* The texts: empty, blank, short, longer than MAX_CHARS, and longer than
\* MAX_CHARS with nothing but whitespace among its first MAX_CHARS characters.
Texts ==
    {<<>>, <<" ", "\n">>, <<"a">>, <<"a", "b", "c", "d">>,
     <<" ", " ", " ", " ", "a">>}

\* text.strip() is empty
Blank(text) == \A n \in 1..Len(text) : text[n] \in {" ", "\n", "\t"}

\* Mutant: a text longer than MAX_CHARS is sent whole.
clean_text_Uncut(text) == IF Len(text) > 0 /\ ~Blank(text) THEN text ELSE <<" ">>

\* _embed_batch lines 176-185: the text sent for an input text.
clean_text(text) ==
    IF Len(text) > 0 /\ ~Blank(text)
    THEN (IF Len(text) > MAX_CHARS THEN SubSeq(text, 1, MAX_CHARS) ELSE text)
    ELSE <<" ">>

\* The vector the embedding service computes for a text it is sent.
ServiceVector(text) == <<"vec">> \o text

\* The orders a response can list the results of n inputs in.
Orders(n) == {o \in [1..n -> 1..n] : \A a, b \in 1..n : a # b => o[a] # o[b]}

\* response.data for the inputs sent, listed in the order o: each item
\* carries the 0-based index of its input.
ResponseData(sent, o) ==
    [k \in 1..Len(sent) |->
        [index |-> o[k] - 1, embedding |-> ServiceVector(sent[o[k]])]]

\* _embed_batch lines 175-185: clean_texts, the list sent for a group.
sanitize(texts) == [k \in 1..Len(texts) |-> clean_text(texts[k])]

\* Mutant: the results are taken in the order the response lists them.
assemble_ByArrival(n, data) == [k \in 1..n |-> data[k].embedding]

\* _embed_batch lines 193-197: embeddings[item.index] = item.embedding
assemble(n, data) ==
    [k \in 1..n |->
        IF \E d \in 1..Len(data) : data[d].index = k - 1
        THEN data[CHOOSE d \in 1..Len(data) : data[d].index = k - 1].embedding
        ELSE None]

\* The errors a remote call can raise: openai's RateLimitError (status 429),
\* APIConnectionError (no status) and other APIErrors by status code.
Errors ==
    {[type |-> "RateLimitError", status_code |-> 429],
     [type |-> "APIConnectionError", status_code |-> 0],
     [type |-> "APIError", status_code |-> 500],
     [type |-> "APIError", status_code |-> 503],
     [type |-> "APIError", status_code |-> 400],
     [type |-> "APIError", status_code |-> 0]}

\* Mutant: every error is waited for and retried.
Retryable_All(e) == TRUE

\* _embed_batch_with_retry lines 130-159: the except clause an error meets
\* waits and retries, or re-raises.
Retryable(e) ==
    \/ e.type = "RateLimitError"
    \/ e.type = "APIConnectionError"
    \/ e.type = "APIError" /\ e.status_code # 0
          /\ 500 <= e.status_code /\ e.status_code < 600

\* Mutant: the delay stays what it was.
next_delay_Same(delay) == delay

\* _embed_batch_with_retry lines 137, 146, 156: delay = min(delay * 2, ...)
next_delay(delay) == Min(delay * 2, MAX_RETRY_DELAY)

\* Mutant: one attempt more than MAX_RETRIES.
exhausted_OneMore(attempt) == attempt > MAX_RETRIES

\* _embed_batch_with_retry line 126: range(MAX_RETRIES) has no attempt left.
exhausted(attempt) == attempt >= MAX_RETRIES

\* The locals of an embed_texts call, and what was observed of it: sent (the
\* list each remote call carried), waits (every time.sleep), groups (per
\* group: the first text's offset, the remote calls, the waits, whether it
\* was answered, whether its calls failed with errors of different types),
\* thrown (the error the latest failed remote call raised), cancel (the
\* number of the group that was in flight when the caller asked the call to
\* stop; nothing in embed_texts reads it).
IdleEmb ==
    [pc |-> "idle", texts |-> <<>>, batch_size |-> 0, i |-> 0,
     all_embeddings |-> <<>>, attempt |-> 0, delay |-> 0, last_error |-> None,
     result |-> None, raised |-> None,
     sent |-> <<>>, waits |-> <<>>, failures |-> 0, reordered |-> FALSE,
     groups |-> <<>>, thrown |-> None, cancel |-> None]

(***************************************************************************)
(* splitters/text_splitter.py: TextSplitter.  A text is a sequence of      *)
(* characters, a separator too.                                            *)
(***************************************************************************)
\* The longest text split, the largest chunk size a splitter is built with,
\* the longest text split where every way of passing the sizes is tried,
\* and the configured defaults (the code has 1000 and 200, config.py).
MaxTextLen == 6
MaxSize == 4
MaxShortLen == 3
DefaultChunkSize == 3
DefaultChunkOverlap == 1

\* The characters of the texts: letters, the blank, and the full stop of
\* the separator ". ".
Chars == {"a", "b", " ", "."}

\* DEFAULT_SEPARATORS lines 25-35
DEFAULT_SEPARATORS ==
    << <<"\n", "\n">>, <<"\n">>, <<".", " ">>, <<"!", " ">>, <<"?", " ">>,
       <<";", " ">>, <<",", " ">>, <<" ">>, <<>> >>

Max(a, b) == IF a > b THEN a ELSE b

\* str.isspace() of a character
Whitespace(c) == c \in {" ", "\n", "\t"}

\* str.strip()
RECURSIVE lstrip(_)
lstrip(text) ==
    IF text # <<>> /\ Whitespace(Head(text)) THEN lstrip(Tail(text)) ELSE text

RECURSIVE rstrip(_)
rstrip(text) ==
    IF text # <<>> /\ Whitespace(text[Len(text)])
    THEN rstrip(SubSeq(text, 1, Len(text) - 1))
    ELSE text

strip(text) == rstrip(lstrip(text))

\* The positions a separator occurs at in a text; `separator in text`.
Occurrences(text, separator) ==
    {n \in 1..(Len(text) - Len(separator) + 1) :
        SubSeq(text, n, n + Len(separator) - 1) = separator}

\* str.split(separator) for a separator that is not empty
RECURSIVE str_split(_, _)
str_split(text, separator) ==
    LET at == Occurrences(text, separator)
    IN  IF at = {} THEN <<text>>
        ELSE LET n == CHOOSE a \in at : \A b \in at : a <= b
             IN  <<SubSeq(text, 1, n - 1)>>
                    \o str_split(SubSeq(text, n + Len(separator), Len(text)),
                                 separator)

\* _split_by_size lines 155-160
\* Mutant: a span without a usable boundary is kept whole.
split_by_size_Whole(text, chunk_size) == <<text>>

RECURSIVE split_by_size(_, _)
split_by_size(text, chunk_size) ==
    IF text = <<>> THEN <<>>
    ELSE <<SubSeq(text, 1, Min(chunk_size, Len(text)))>>
            \o split_by_size(SubSeq(text, chunk_size + 1, Len(text)), chunk_size)

\* _split_text lines 114-153; split_parts is its loop over the parts.
RECURSIVE split_text(_, _, _)
RECURSIVE split_parts(_, _, _)
split_text(text, separators, chunk_size) ==
    IF separators = <<>> THEN split_by_size(text, chunk_size)
    ELSE LET separator == Head(separators)
             remaining_separators == Tail(separators)
         IN  IF separator = <<>> THEN split_by_size(text, chunk_size)
             ELSE IF Occurrences(text, separator) = {}
             THEN split_text(text, remaining_separators, chunk_size)
             ELSE split_parts(str_split(text, separator),
                              remaining_separators, chunk_size)

split_parts(parts, remaining_separators, chunk_size) ==
    IF parts = <<>> THEN <<>>
    ELSE (IF Len(Head(parts)) <= chunk_size
          THEN <<Head(parts)>>
          ELSE split_text(Head(parts), remaining_separators, chunk_size))
            \o split_parts(Tail(parts), remaining_separators, chunk_size)

\* Mutant: nothing is carried over as the overlap.
overlap_of_Nothing(current_chunk, chunk_overlap) == <<>>

\* Mutant: the whole chunk is carried over as the overlap.
overlap_of_Whole(current_chunk, chunk_overlap) == current_chunk

\* current_chunk[overlap_start:], lines 185-186
overlap_of(current_chunk, chunk_overlap) ==
    SubSeq(current_chunk, Max(0, Len(current_chunk) - chunk_overlap) + 1,
           Len(current_chunk))

\* _merge_chunks lines 175-198: the loop over the chunks left, with the
\* merged list and the current chunk so far.
RECURSIVE merge_loop(_, _, _, _, _)
merge_loop(chunks, merged, current_chunk, chunk_size, chunk_overlap) ==
    IF chunks = <<>>
    THEN (IF current_chunk # <<>> THEN Append(merged, current_chunk) ELSE merged)
    ELSE LET chunk == Head(chunks)
         IN  IF current_chunk # <<>>
                  /\ Len(current_chunk) + Len(chunk) + 1 > chunk_size
             THEN merge_loop(Tail(chunks), Append(merged, current_chunk),
                             overlap_of(current_chunk, chunk_overlap)
                                 \o <<" ">> \o chunk,
                             chunk_size, chunk_overlap)
             ELSE merge_loop(Tail(chunks), merged,
                             IF current_chunk # <<>>
                             THEN current_chunk \o <<" ">> \o chunk
                             ELSE chunk,
                             chunk_size, chunk_overlap)

\* _merge_chunks lines 162-198
merge_chunks(chunks, chunk_size, chunk_overlap) ==
    merge_loop(chunks, <<>>, <<>>, chunk_size, chunk_overlap)

\* split lines 93-105: the Chunk objects of the merged chunks from the i-th
\* on (source_path and file_name are handed through and left out here).
RECURSIVE make_chunks(_, _, _)
make_chunks(merged_chunks, i, total_chunks) ==
    IF merged_chunks = <<>> THEN <<>>
    ELSE (IF strip(Head(merged_chunks)) # <<>>
          THEN <<[chunk_id |-> i, content |-> strip(Head(merged_chunks)),
                  total_chunks |-> total_chunks]>>
          ELSE <<>>)
            \o make_chunks(Tail(merged_chunks), i + 1, total_chunks)

\* The locals of TextSplitter.split at its return.
split(text, separators, chunk_size, chunk_overlap) ==
    IF text = <<>> \/ strip(text) = <<>>
    THEN [raw_chunks |-> <<>>, merged_chunks |-> <<>>, chunks |-> <<>>]
    ELSE LET raw_chunks == split_text(strip(text), separators, chunk_size)
             merged_chunks == merge_chunks(raw_chunks, chunk_size, chunk_overlap)
         IN  [raw_chunks |-> raw_chunks,
              merged_chunks |-> merged_chunks,
              chunks |-> make_chunks(merged_chunks, 0, Len(merged_chunks))]

\* The texts of at most n characters.
RECURSIVE TextsUpTo(_)
TextsUpTo(n) ==
    IF n = 0 THEN {<<>>}
    ELSE LET shorter == TextsUpTo(n - 1)
         IN  shorter \cup {Append(t, c) : t \in shorter, c \in Chars}

\* passed: the chunk_size and chunk_overlap arguments of the constructor.
IdleSplitter ==
    [pc |-> "none", chunk_size |-> 0, chunk_overlap |-> 0, separators |-> <<>>,
     text |-> <<>>, raw_chunks |-> <<>>, merged_chunks |-> <<>>,
     chunks |-> <<>>, raised |-> None, passed |-> <<>>]

(***************************************************************************)
(* State.                                                                  *)
(*   store  the search index: document key -> document                     *)
(*   run    per invocation: the locals of DocumentProcessor.process,       *)
(*          SearchIndexer.delete_by_source_path and upsert_chunks          *)
(*   clock  datetime.utcnow(), advanced whenever it is read                *)
(*   hist   per invocation: what the index was asked and what it answered  *)
(*   overlapped  invocations whose index calls interleaved with another's  *)
(*   emb    one call of EmbeddingService.embed_texts: its locals, and what *)
(*          it sent to the embedding service and waited for                *)
(*   spl    one TextSplitter: its attributes, and the locals of its split  *)
(***************************************************************************)
VARIABLES store, run, clock, hist, overlapped, emb, spl

vars == <<store, run, clock, hist, overlapped, emb, spl>>

EmptyStore == [k \in {} |-> None]

\* A list is truthy when it is neither None nor empty.
Truthy(list) == list # None /\ Len(list[1]) > 0

\* Mutant: the filter names a field no document has, and matches nothing.
search_NoMatch(st, source_path) == {}

\* client.search(filter="sourcePath eq '<source_path>'", select=["id"]): the
\* keys of the documents the filter matches.
search(st, source_path) == {k \in DOMAIN st : st[k].sourcePath = source_path}

\* The keys of a set of one source's documents, in chunk order.
RECURSIVE InChunkOrder(_, _)
InChunkOrder(st, keys) ==
    IF keys = {} THEN <<>>
    ELSE LET first == CHOOSE k \in keys :
                          \A o \in keys : st[k].chunkId <= st[o].chunkId
         IN  <<first>> \o InChunkOrder(st, keys \ {first})

\* client.upload_documents: the documents at the positions in ok are written.
Uploaded(st, batch, ok) ==
    LET new == {batch[n].id : n \in ok}
        doc(k) == batch[CHOOSE n \in ok : batch[n].id = k]
    IN  [k \in DOMAIN st \cup new |-> IF k \in new THEN doc(k) ELSE st[k]]

\* client.delete_documents: the keys at the positions in ok are removed.
Deleted(st, batch, ok) ==
    [k \in DOMAIN st \ {batch[n] : n \in ok} |-> st[k]]

\* documents[i:i + BATCH_SIZE] with a 0-based offset
Slice(s, offset) == SubSeq(s, offset + 1, Min(offset + BATCH_SIZE, Len(s)))

(***************************************************************************)
(* function_app.py: DocumentProcessor.process, and the two calls of its    *)
(* step 5 as a list, so that the order of the calls is a definition.       *)
(***************************************************************************)
\* Mutants: the delete call left out; the two calls in the other order.
IndexSteps_NoDelete == <<"upsert_chunks">>
IndexSteps_UpsertFirst == <<"upsert_chunks", "delete_by_source_path">>

\* lines 134-135: delete_by_source_path(blob_url), then upsert_chunks(...)
IndexSteps == <<"delete_by_source_path", "upsert_chunks">>

IdleRun ==
    [pc |-> "begin", entry |-> "None", todo |-> <<>>,
     source_path |-> None, chunks |-> <<>>, embeddings |-> None,
     doc_ids |-> <<>>, i |-> 0, total_deleted |-> 0,
     processed_at |-> 0, documents |-> <<>>, j |-> 0,
     total_success |-> 0, total_failed |-> 0, result |-> None]

\* logged: the keys of the items a logger.error call names or whose batch it
\* names; counted: the keys of the items counted in a returned failed count;
\* cancel: the number of the upload batch that was in flight when the caller
\* asked the invocation to stop (nothing in the indexer reads it).
IdleHist ==
    [first |-> {}, queried |-> FALSE, stale |-> {}, raised |-> "None",
     deletes |-> 0, undeleted |-> {},
     uploads |-> 0, ok |-> {}, bad |-> {}, err |-> {},
     logged |-> {}, counted |-> {}, cancel |-> None]

\* Mutant: process does not catch the exception.
Raise_Propagated(r, e) == [r EXCEPT !.pc = "done", !.result = [raised |-> e]]

\* An exception leaves the running call: process catches it (lines 155-163),
\* a direct caller of the indexer receives it.
Raise(r, e) ==
    IF r.entry = "process"
    THEN [r EXCEPT !.pc = "done",
                   !.result = [success |-> FALSE, chunks_created |-> 0,
                               chunks_indexed |-> 0,
                               error_message |-> Some(e)]]
    ELSE [r EXCEPT !.pc = "done", !.result = [raised |-> e]]

\* process lines 138-153, or upsert_chunks returning to a direct caller
Finish(r) ==
    IF r.entry = "process"
    THEN [r EXCEPT !.pc = "done",
                   !.result =
                       [success        |-> r.total_failed = 0,
                        chunks_created |-> Len(r.chunks),
                        chunks_indexed |-> r.total_success,
                        error_message  |->
                            IF r.total_failed # 0
                            THEN Some(<<r.total_failed, "chunks failed to index">>)
                            ELSE None]]
    ELSE [r EXCEPT !.pc = "done",
                   !.result = [returned |-> <<r.total_success, r.total_failed>>]]

\* _upsert_batch lines 127-128: (success, failed) from the results of a call
\* over n documents of which those at the positions in ok succeeded.
batch_counts(n, ok) == <<Cardinality(ok), n - Cardinality(ok)>>

\* Mutant: a call that raised counts no document at all.
batch_error_Uncounted(n) == <<0, 0>>

\* _upsert_batch lines 140-142: a call that raised counts every document of
\* the batch as failed.
batch_error(n) == <<0, n>>

\* upsert_chunks lines 77-100, up to the first upload_documents call
upsert_chunks_begin(r, now) ==
    IF Len(r.chunks) = 0
    THEN [r EXCEPT !.pc = "returned", !.total_success = 0, !.total_failed = 0]
    ELSE IF Truthy(r.embeddings) /\ Len(r.embeddings[1]) # Len(r.chunks)
    THEN Raise(r, "ValueError: Embeddings count must match chunks count")
    ELSE LET attached ==
                 IF Truthy(r.embeddings)
                 THEN [n \in 1..Len(r.chunks) |->
                          [r.chunks[n] EXCEPT
                              !.embedding = Some(r.embeddings[1][n])]]
                 ELSE r.chunks
         IN  [r EXCEPT !.pc = "upload",
                       !.chunks = attached,
                       !.processed_at = now,
                       !.documents = [n \in 1..Len(attached) |->
                                         to_search_document(attached[n], now)],
                       !.j = 0, !.total_success = 0, !.total_failed = 0]

\* The next indexer call of the invocation, up to its first index request.
RECURSIVE Advance(_, _)
Advance(r, now) ==
    IF r.todo = <<>> THEN Finish(r)
    ELSE LET rest == [r EXCEPT !.todo = Tail(@)]
         IN  IF Head(r.todo) = "delete_by_source_path"
             THEN [rest EXCEPT !.pc = "query"]
             ELSE LET u == upsert_chunks_begin(rest, now)
                  IN  IF u.pc = "returned" THEN Advance(u, now) ELSE u

\* Mutant: the error of the delete phase is logged and swallowed.
delete_failed_Swallowed(r, e, now) == Advance(r, now)

\* delete_by_source_path lines 186-188: log the error and re-raise it.
delete_failed(r, e, now) == Raise(r, e)

\* Invocations with an index request answered and more to come.
InFlight(p) == run[p].pc \in {"delete", "upload"}

\* An index request of p: it overlaps every invocation in flight.
Overlap(p) ==
    IF \E q \in Procs \ {p} : InFlight(q)
    THEN overlapped \cup {p} \cup {q \in Procs : InFlight(q)}
    ELSE overlapped

\* The invocation's new locals; utcnow() advances when it was read.
Commit(p, r) ==
    /\ run' = [run EXCEPT ![p] = r]
    /\ clock' = IF r.processed_at # run[p].processed_at THEN clock + 1 ELSE clock
    /\ UNCHANGED <<emb, spl>>

\* What step 1-4 of process can end in before the index is touched.
PipelineFailures ==
    {"Unsupported file type", "download failed", "extraction failed",
     "No text content extracted from document",
     "No chunks created from document", "embedding failed"}

\* The answers an index call over n items can give: with faults any subset of
\* the items succeeds, without faults all of them do.
Answers(n, faults) == IF faults THEN SUBSET (1..n) ELSE {1..n}

\* Mutant: a run that failed before step 5 still clears the source's entries.
pipeline_failed_Cleared(r, outcome) ==
    [Raise(r, outcome) EXCEPT !.pc = "query", !.todo = <<>>]

\* process lines 84-91, 103-110, 117-124 and 155-163: a failure of the steps
\* before step 5 is returned at once.
pipeline_failed(r, outcome) == Raise(r, outcome)

\* process lines 77-131: download, extract, split, embed.
Begin(p, versions, faults) ==
    /\ run[p].pc = "begin"
    /\ \E s \in Sources, m \in 1..MaxChunks, v \in versions,
          outcome \in {"ok"} \cup (IF faults THEN PipelineFailures ELSE {}) :
          LET chunks == ChunksOf(s, m, v)
              r == [run[p] EXCEPT !.entry = "process", !.source_path = s]
          IN  IF outcome = "ok"
              THEN Commit(p, Advance([r EXCEPT
                       !.chunks = chunks,
                       !.embeddings =
                           Some([n \in 1..m |-> VectorOf(chunks[n].content)]),
                       !.todo = IndexSteps], clock))
              ELSE Commit(p, pipeline_failed(r, outcome))
    /\ UNCHANGED <<store, hist, overlapped>>

\* delete_by_source_path lines 159-173: the search for the source's documents.
Query(p, faults) ==
    /\ run[p].pc = "query"
    /\ overlapped' = Overlap(p)
    /\ UNCHANGED store
    /\ \/ /\ faults
          /\ Commit(p, delete_failed(run[p], "search failed", clock))
          /\ hist' = [hist EXCEPT ![p].raised = "search failed"]
       \/ LET all == search(store, run[p].source_path)
          IN  \E found \in SUBSET all :
                /\ Cardinality(found) = Min(Cardinality(all), SEARCH_TOP)
                /\ hist' = [hist EXCEPT ![p].queried = TRUE, ![p].stale = all]
                /\ LET r == [run[p] EXCEPT !.doc_ids = InChunkOrder(store, found),
                                           !.i = 0, !.total_deleted = 0]
                   IN  IF found = {}
                       THEN Commit(p, Advance(r, clock))
                       ELSE Commit(p, [r EXCEPT !.pc = "delete"])

\* delete_by_source_path lines 177-184: one delete_documents call; the
\* results that did not succeed are neither logged nor counted.
DeleteBatch(p, faults) ==
    /\ run[p].pc = "delete"
    /\ overlapped' = Overlap(p)
    /\ LET batch == Slice(run[p].doc_ids, run[p].i)
       IN  \/ /\ faults
              /\ Commit(p, delete_failed(run[p], "delete failed", clock))
              /\ hist' = [hist EXCEPT ![p].raised = "delete failed",
                                      ![p].deletes = @ + 1]
              /\ UNCHANGED store
           \/ \E ok \in Answers(Len(batch), faults) :
                /\ store' = Deleted(store, batch, ok)
                /\ hist' = [hist EXCEPT
                       ![p].deletes = @ + 1,
                       ![p].undeleted = @ \cup {batch[n] : n \in (1..Len(batch)) \ ok}]
                /\ LET r == [run[p] EXCEPT !.i = @ + BATCH_SIZE,
                                           !.total_deleted = @ + Cardinality(ok)]
                   IN  IF r.i >= Len(r.doc_ids)
                       THEN Commit(p, Advance(r, clock))
                       ELSE Commit(p, r)

\* _upsert_batch: one upload_documents call, its accounting and its logging
\* (lines 131-136 for a failed result, line 141 for a call that raised).
UploadBatch(p, faults) ==
    /\ run[p].pc = "upload"
    /\ overlapped' = Overlap(p)
    /\ LET batch == Slice(run[p].documents, run[p].j)
           keys(S) == {batch[n].id : n \in S}
           next(counts) ==
               LET r == [run[p] EXCEPT !.j = @ + BATCH_SIZE,
                                       !.total_success = @ + counts[1],
                                       !.total_failed = @ + counts[2]]
               IN  IF r.j >= Len(r.documents)
                   THEN Commit(p, Advance(r, clock))
                   ELSE Commit(p, r)
       IN  \/ /\ faults
              /\ next(batch_error(Len(batch)))
              /\ hist' = [hist EXCEPT ![p].uploads = @ + 1,
                                      ![p].err = @ \cup keys(1..Len(batch)),
                                      ![p].logged = @ \cup keys(1..Len(batch)),
                                      ![p].counted = @ \cup keys(1..Len(batch))]
              /\ UNCHANGED store
           \/ \E ok \in Answers(Len(batch), faults) :
                /\ store' = Uploaded(store, batch, ok)
                /\ hist' = [hist EXCEPT
                       ![p].uploads = @ + 1,
                       ![p].ok = @ \cup keys(ok),
                       ![p].bad = @ \cup keys((1..Len(batch)) \ ok),
                       ![p].logged = @ \cup keys((1..Len(batch)) \ ok),
                       ![p].counted = @ \cup keys((1..Len(batch)) \ ok)]
                /\ next(batch_counts(Len(batch), ok))

\* The index as an earlier, complete run for one source left it.
InitialStores ==
    {LET chunks == ChunksOf(s, n, 0)
         documents == [k \in 1..n |->
             to_search_document(
                 [chunks[k] EXCEPT
                     !.embedding = Some(VectorOf(chunks[k].content))], 0)]
     IN  Uploaded(EmptyStore, documents, 1..n) : s \in Sources, n \in 0..MaxChunks}

Init ==
    /\ store \in InitialStores
    /\ run = [p \in Procs |-> IdleRun]
    /\ hist = [p \in Procs |-> IdleHist]
    /\ clock = 1
    /\ overlapped = {}
    /\ emb = IdleEmb
    /\ spl = IdleSplitter

(***************************************************************************)
(* Spec: one invocation of process against the index an earlier run left,  *)
(* with every fault the index can answer with.                             *)
(***************************************************************************)
Next ==
    \/ Begin("p1", Versions, TRUE)
    \/ Query("p1", TRUE)
    \/ DeleteBatch("p1", TRUE)
    \/ UploadBatch("p1", TRUE)

Spec == Init /\ [][Next]_vars

(***************************************************************************)
(* SpecProcess: one invocation of process as process_document_http makes   *)
(* it: blob_url is whatever truthy value the request body holds under      *)
(* "blob_url", a string or not.                                            *)
(***************************************************************************)
\* process_document_http lines 249-261 with a number or a list as blob_url,
\* then process lines 77-78: blob_url.split("/") comes before the try block
\* and its AttributeError leaves process.
BeginUntyped(p) ==
    /\ run[p].pc = "begin"
    /\ Commit(p, [run[p] EXCEPT !.entry = "process", !.pc = "done",
                                !.result = [raised |-> "AttributeError"]])
    /\ UNCHANGED <<store, hist, overlapped>>

NextProcess ==
    \/ Begin("p1", Versions, TRUE)
    \/ BeginUntyped("p1")
    \/ Query("p1", TRUE)
    \/ DeleteBatch("p1", TRUE)
    \/ UploadBatch("p1", TRUE)

SpecProcess == Init /\ [][NextProcess]_vars

(***************************************************************************)
(* SpecRerun: the same document, unchanged, is processed a second time     *)
(* after a first invocation whose index calls all succeeded; the calls of  *)
(* the second invocation meet every fault.                                 *)
(***************************************************************************)
\* What a reader of the index observes: every document but for the time it
\* was processed at.
Observable(st) == {[st[k] EXCEPT !.processedAt = 0] : k \in DOMAIN st}

\* No call of the invocation raised and no item of it failed.
Clean(p) ==
    /\ hist[p].raised = "None"
    /\ hist[p].undeleted = {} /\ hist[p].bad = {} /\ hist[p].err = {}

Rerun(p, q) ==
    /\ run[p].pc = "begin"
    /\ run[q].pc = "done" /\ run[q].result.success /\ Clean(q)
    /\ Commit(p, Advance([run[p] EXCEPT
           !.entry = "process",
           !.source_path = run[q].source_path,
           !.chunks = [n \in 1..Len(run[q].chunks) |->
                          [run[q].chunks[n] EXCEPT !.embedding = None]],
           !.embeddings = run[q].embeddings,
           !.todo = IndexSteps], clock))
    /\ hist' = [hist EXCEPT ![p].first = Observable(store)]
    /\ UNCHANGED <<store, overlapped>>

NextRerun ==
    \/ Begin("p1", Versions, FALSE)
    \/ Query("p1", FALSE)
    \/ DeleteBatch("p1", FALSE)
    \/ UploadBatch("p1", FALSE)
    \/ Rerun("p2", "p1")
    \/ Query("p2", TRUE)
    \/ DeleteBatch("p2", TRUE)
    \/ UploadBatch("p2", TRUE)

SpecRerun == Init /\ [][NextRerun]_vars

(***************************************************************************)
(* SpecConcurrent: two invocations whose index calls interleave freely;    *)
(* every index call succeeds.  Invocation p1 processes version 1 of its    *)
(* document and p2 version 2.                                              *)
(***************************************************************************)
VersionOf(p) == IF p = "p1" THEN {1} ELSE {2}

NextConcurrent ==
    \E p \in Procs :
        \/ Begin(p, VersionOf(p), FALSE)
        \/ Query(p, FALSE)
        \/ DeleteBatch(p, FALSE)
        \/ UploadBatch(p, FALSE)

SpecConcurrent == Init /\ [][NextConcurrent]_vars

(***************************************************************************)
(* SpecUpsert: SearchIndexer.upsert_chunks called directly (the module's   *)
(* public upsert_chunks), with any list of embeddings or none.             *)
(***************************************************************************)
CallUpsert(p) ==
    /\ run[p].pc = "begin"
    /\ \E s \in Sources, m \in 0..MaxChunks, v \in Versions :
         \E embeddings \in {None} \cup
              {Some([n \in 1..len |-> VectorOf(ContentOf(v, n - 1))]) :
                  len \in 0..MaxChunks} :
          Commit(p, Advance([run[p] EXCEPT
              !.entry = "upsert_chunks",
              !.source_path = s,
              !.chunks = ChunksOf(s, m, v),
              !.embeddings = embeddings,
              !.todo = <<"upsert_chunks">>], clock))
    /\ UNCHANGED <<store, hist, overlapped>>

NextUpsert ==
    \/ CallUpsert("p1")
    \/ UploadBatch("p1", TRUE)

SpecUpsert == Init /\ [][NextUpsert]_vars

(***************************************************************************)
(* SpecEmbed: one call of EmbeddingService.embed_texts with any texts, the *)
(* embedding service answering each request with the results in any order  *)
(* or with an error.                                                       *)
(***************************************************************************)
\* Mutant: the delay and the attempt counter outlive the group.
NewGroup_Carried(e) ==
    [e EXCEPT !.pc = "call", !.last_error = None,
              !.groups = Append(@, [offset |-> e.i, calls |-> 0,
                                    waits |-> <<>>, answered |-> FALSE,
                                    mixed |-> FALSE])]

\* _embed_batch_with_retry lines 123-124: the locals of a new group
NewGroup(e) ==
    [e EXCEPT !.pc = "call", !.attempt = 0, !.delay = INITIAL_RETRY_DELAY,
              !.last_error = None,
              !.groups = Append(@, [offset |-> e.i, calls |-> 0,
                                    waits |-> <<>>, answered |-> FALSE,
                                    mixed |-> FALSE])]

\* Mutant: a group that failed is left out and the next group is embedded.
group_failed_Skipped(e, error) ==
    LET n == [e EXCEPT !.i = @ + e.batch_size]
    IN  IF n.i >= Len(n.texts)
        THEN [n EXCEPT !.pc = "done", !.result = Some(n.all_embeddings)]
        ELSE NewGroup(n)

\* embed_texts line 89: an error of _embed_batch_with_retry is not caught,
\* it leaves embed_texts.
group_failed(e, error) == [e EXCEPT !.pc = "done", !.raised = error]

\* n different texts that are sent as they are.
PlainTexts(n) == [k \in 1..n |-> <<"t", ToString(k)>>]

\* embed_texts lines 79-88, up to the first remote call; the texts are any
\* of Texts, or plain ones.
EmbedTexts(plain) ==
    /\ emb.pc = "idle"
    /\ \E n \in 0..MaxTexts, batch_size \in 1..MaxBatchSize :
         \E texts \in IF plain THEN {PlainTexts(n)} ELSE [1..n -> Texts] :
            emb' = IF n = 0
                   THEN [emb EXCEPT !.pc = "done", !.result = Some(<<>>)]
                   ELSE NewGroup([emb EXCEPT !.texts = texts,
                                             !.batch_size = batch_size,
                                             !.i = 0,
                                             !.all_embeddings = <<>>])
    /\ UNCHANGED <<store, run, clock, hist, overlapped, spl>>

\* One client.embeddings.create call for the current group and what
\* _embed_batch, _embed_batch_with_retry and embed_texts do with its outcome.
RemoteCall(errors) ==
    /\ emb.pc = "call"
    /\ LET batch == SubSeq(emb.texts, emb.i + 1,
                           Min(emb.i + emb.batch_size, Len(emb.texts)))
           clean_texts == sanitize(batch)
           g == Len(emb.groups)
           called == [emb EXCEPT !.sent = Append(@, clean_texts),
                                 !.groups[g].calls = @ + 1]
       IN  \/ \E o \in Orders(Len(clean_texts)) :
                LET embeddings == assemble(Len(clean_texts),
                                           ResponseData(clean_texts, o))
                    e == [called EXCEPT
                             !.all_embeddings = @ \o embeddings,
                             !.groups[g].answered = TRUE,
                             !.i = @ + emb.batch_size,
                             !.reordered = @ \/ \E k \in 1..Len(batch) : o[k] # k]
                IN  emb' = IF e.i >= Len(e.texts)
                           THEN [e EXCEPT !.pc = "done",
                                          !.result = Some(e.all_embeddings)]
                           ELSE NewGroup(e)
           \/ \E error \in errors :
                LET e == [called EXCEPT !.last_error = Some(error),
                                        !.thrown = Some(error),
                                        !.groups[g].mixed =
                                            @ \/ (emb.last_error # None /\
                                                  emb.last_error[1].type # error.type),
                                        !.failures = @ + 1]
                IN  IF Retryable(error)
                    THEN LET w == [e EXCEPT
                                      !.waits = Append(@, e.delay),
                                      !.groups[g].waits = Append(@, e.delay),
                                      !.delay = next_delay(e.delay),
                                      !.attempt = @ + 1]
                         IN  emb' = IF exhausted(w.attempt)
                                    THEN group_failed(w, w.last_error)
                                    ELSE w
                    ELSE emb' = group_failed(e, Some(error))
    /\ UNCHANGED <<store, run, clock, hist, overlapped, spl>>

InitEmbed ==
    /\ store = EmptyStore
    /\ run = [p \in Procs |-> IdleRun]
    /\ hist = [p \in Procs |-> IdleHist]
    /\ clock = 1
    /\ overlapped = {}
    /\ emb = IdleEmb
    /\ spl = IdleSplitter

\* One error that is retried and one that is not.
SomeErrors ==
    {[type |-> "RateLimitError", status_code |-> 429],
     [type |-> "APIError", status_code |-> 400]}

NextEmbed == EmbedTexts(FALSE) \/ RemoteCall(SomeErrors)

SpecEmbed == InitEmbed /\ [][NextEmbed]_vars

(***************************************************************************)
(* SpecRetry: one call of embed_texts with plain texts, the embedding      *)
(* service answering each request or failing it with any of Errors.        *)
(***************************************************************************)
NextRetry == EmbedTexts(TRUE) \/ RemoteCall(Errors)

SpecRetry == InitEmbed /\ [][NextRetry]_vars

(***************************************************************************)
(* SpecCancel: one call of embed_texts or one call of upsert_chunks, which *)
(* its caller asks to stop while a group or a batch is in flight.  The     *)
(* loops of embed_texts (lines 86-93) and upsert_chunks (lines 102-106)    *)
(* take no stop signal and test none between two iterations, so the        *)
(* request changes nothing but the record of when it was made.             *)
(***************************************************************************)
CancelEmbedding ==
    /\ emb.pc = "call"
    /\ emb.cancel = None
    /\ emb' = [emb EXCEPT !.cancel = Some(Len(emb.groups))]
    /\ UNCHANGED <<store, run, clock, hist, overlapped, spl>>

CancelUpsert(p) ==
    /\ run[p].pc = "upload"
    /\ hist[p].cancel = None
    /\ hist' = [hist EXCEPT ![p].cancel = Some(hist[p].uploads + 1)]
    /\ UNCHANGED <<store, run, clock, overlapped, emb, spl>>

NextCancel ==
    \/ run["p1"].pc = "begin" /\ EmbedTexts(TRUE)
    \/ run["p1"].pc = "begin" /\ RemoteCall(SomeErrors)
    \/ run["p1"].pc = "begin" /\ CancelEmbedding
    \/ emb.pc = "idle" /\ CallUpsert("p1")
    \/ emb.pc = "idle" /\ UploadBatch("p1", TRUE)
    \/ emb.pc = "idle" /\ CancelUpsert("p1")

SpecCancel == InitEmbed /\ [][NextCancel]_vars

(***************************************************************************)
(* SpecSplit: a TextSplitter is constructed with a chunk size and an       *)
(* overlap and splits a text.                                              *)
(***************************************************************************)
\* The sizes a caller passes: None or a number.
SizeArgs == {None} \cup {Some(n) : n \in 0..MaxSize}

\* The positive sizes.
PositiveSizes == {Some(n) : n \in 1..MaxSize}

\* `argument or default`: None and 0 are falsy.
or_default(argument, default) ==
    IF argument # None /\ argument[1] # 0 THEN argument[1] ELSE default

\* Mutant: an overlap equal to the chunk size is let through.
invalid_overlap_Above(chunk_size, chunk_overlap) == chunk_overlap > chunk_size

\* TextSplitter.__init__ line 56
invalid_overlap(chunk_size, chunk_overlap) == chunk_overlap >= chunk_size

\* TextSplitter.__init__ lines 51-60, the two arguments being any of sizes
NewSplitter(sizes) ==
    /\ spl.pc = "none"
    /\ \E chunk_size \in sizes, chunk_overlap \in sizes :
         LET s == [spl EXCEPT
                      !.passed = <<chunk_size, chunk_overlap>>,
                      !.chunk_size = or_default(chunk_size, DefaultChunkSize),
                      !.chunk_overlap =
                          or_default(chunk_overlap, DefaultChunkOverlap),
                      !.separators = DEFAULT_SEPARATORS]
         IN  spl' = IF invalid_overlap(s.chunk_size, s.chunk_overlap)
                    THEN [s EXCEPT !.pc = "rejected",
                                   !.raised = Some("ValueError")]
                    ELSE [s EXCEPT !.pc = "ready"]
    /\ UNCHANGED <<store, run, clock, hist, overlapped, emb>>

\* TextSplitter.split lines 79-112, the text being any of texts
SplitText(texts) ==
    /\ spl.pc = "ready"
    /\ \E text \in texts :
         LET r == split(text, spl.separators, spl.chunk_size, spl.chunk_overlap)
         IN  spl' = [spl EXCEPT !.pc = "split", !.text = text,
                                !.raw_chunks = r.raw_chunks,
                                !.merged_chunks = r.merged_chunks,
                                !.chunks = r.chunks]
    /\ UNCHANGED <<store, run, clock, hist, overlapped, emb>>

NextSplit == NewSplitter(PositiveSizes) \/ SplitText(TextsUpTo(MaxTextLen))

SpecSplit == InitEmbed /\ [][NextSplit]_vars

(***************************************************************************)
(* SpecConstruct: a TextSplitter is constructed with any arguments, passed *)
(* or not, and splits a short text.                                        *)
(***************************************************************************)
NextConstruct == NewSplitter(SizeArgs) \/ SplitText(TextsUpTo(MaxShortLen))

SpecConstruct == InitEmbed /\ [][NextConstruct]_vars

(***************************************************************************)
(* What the claims speak of.                                               *)
(***************************************************************************)
\* The keys of the index entries of a source.
EntriesOf(st, source_path) ==
    {k \in DOMAIN st : st[k].sourcePath = source_path}

\* The keys of the documents an invocation built from its chunks.
NewKeys(p) == {run[p].documents[n].id : n \in 1..Len(run[p].documents)}

\* The invocation ran its delete phase and its upsert loop to the end.
Reconciled(p) ==
    /\ run[p].pc = "done"
    /\ run[p].entry = "process"
    /\ hist[p].raised = "None"
    /\ Len(run[p].documents) > 0

\* The number of upload_documents calls a list of m documents takes.
Batches(m) == (m + BATCH_SIZE - 1) \div BATCH_SIZE

(***************************************************************************)
(* C1 as stated: after a run for a source whose every index call and item  *)
(* succeeded, the index holds for the source exactly the run's documents,  *)
(* whatever number of entries the source had before.                       *)
(***************************************************************************)
C1_ExactlyNewEntries_AsClaimed ==
    \A p \in Procs :
        Reconciled(p) /\ Clean(p) =>
            /\ EntriesOf(store, run[p].source_path) = NewKeys(p)
            /\ \A n \in 1..Len(run[p].documents) :
                   store[run[p].documents[n].id] = run[p].documents[n]

(***************************************************************************)
(* C1 amended: the same, when the source had at most SEARCH_TOP entries    *)
(* before the run (the stale-entry query returns no more than that).       *)
(***************************************************************************)
C1_ExactlyNewEntries ==
    \A p \in Procs :
        /\ Reconciled(p) /\ Clean(p)
        /\ Cardinality(hist[p].stale) <= SEARCH_TOP
        => /\ EntriesOf(store, run[p].source_path) = NewKeys(p)
           /\ Cardinality(EntriesOf(store, run[p].source_path))
                  = Len(run[p].chunks)
           /\ \A n \in 1..Len(run[p].documents) :
                  store[run[p].documents[n].id] = run[p].documents[n]

\* A source that had 3 entries is reprocessed into 1 chunk: 1 entry is left.
C1_Witness ==
    /\ Reconciled("p1") /\ Clean("p1")
    /\ Cardinality(hist["p1"].stale) = SEARCH_TOP
    /\ Len(run["p1"].chunks) = 1
    /\ hist["p1"].deletes = Batches(SEARCH_TOP)
    /\ Cardinality(EntriesOf(store, run["p1"].source_path)) = 1

(***************************************************************************)
(* C2: within an invocation every upload_documents call comes after the    *)
(* stale-entry query and after the last delete_documents call: an upload   *)
(* is issued only with the delete loop finished, and no query or delete is *)
(* issued once an upload was.                                              *)
(***************************************************************************)
C2_DeleteBeforeUpsert ==
    [][\A p \in Procs :
          /\ hist'[p].uploads > hist[p].uploads =>
                 /\ hist[p].queried
                 /\ run[p].i >= Len(run[p].doc_ids)
                 /\ hist[p].deletes = Batches(Len(run[p].doc_ids))
          /\ (hist'[p].deletes > hist[p].deletes
                \/ hist'[p].queried # hist[p].queried) =>
                 hist[p].uploads = 0]_vars

\* Two delete batches were issued, then an upload batch.
C2_Witness ==
    /\ hist["p1"].deletes = 2
    /\ hist["p1"].uploads > 0

(***************************************************************************)
(* C3: when the stale-entry query or a delete batch raises, the invocation *)
(* ends there: it has issued no upload and process returns a failed result *)
(* carrying that error.                                                    *)
(***************************************************************************)
C3_DeleteErrorAborts ==
    \A p \in Procs :
        hist[p].raised # "None" =>
            /\ run[p].pc = "done"
            /\ hist[p].uploads = 0
            /\ ~run[p].result.success
            /\ run[p].result.error_message = Some(hist[p].raised)
            /\ run[p].result.chunks_indexed = 0

\* The second delete batch raised, after the first had deleted its items.
C3_Witness ==
    /\ hist["p1"].raised = "delete failed"
    /\ hist["p1"].deletes = 2
    /\ run["p1"].total_deleted = BATCH_SIZE
    /\ run["p1"].pc = "done"

(***************************************************************************)
(* C4 as stated: upsert_chunks handed chunks and a list of embeddings (any *)
(* list, not None) of another length raises at once: the call is over and  *)
(* has issued no index call.                                               *)
(***************************************************************************)
C4_MismatchRejected_AsClaimed ==
    \A p \in Procs :
        /\ run[p].entry = "upsert_chunks"
        /\ run[p].embeddings # None
        /\ Len(run[p].embeddings[1]) # Len(run[p].chunks)
        /\ Len(run[p].chunks) > 0
        => /\ hist[p].uploads = 0
           /\ run[p].pc = "done" => "raised" \in DOMAIN run[p].result

(***************************************************************************)
(* C5 as stated: after an invocation whose delete phase did not raise (and *)
(* whose stale-entry query was not truncated), the source's entries are    *)
(* exactly the documents reported as succeeded, successCount of them.      *)
(***************************************************************************)
C5_EntriesAreSucceeded_AsClaimed ==
    \A p \in Procs :
        /\ Reconciled(p)
        /\ Cardinality(hist[p].stale) <= SEARCH_TOP
        => LET entries == EntriesOf(store, run[p].source_path)
           IN  /\ Cardinality(entries) = run[p].result.chunks_indexed
               /\ entries = hist[p].ok
               /\ entries \cap (hist[p].bad \cup hist[p].err) = {}

(***************************************************************************)
(* C6: upsert_chunks returns the number of documents the index reported as *)
(* succeeded and the number it failed (reported as failed, or sent in a    *)
(* call that raised); whatever failed, every batch is submitted and the    *)
(* caller gets the two counts, never an exception.                         *)
(***************************************************************************)
C6_UpsertCounts ==
    \A p \in Procs :
        hist[p].uploads > 0 =>
            /\ run[p].total_success = Cardinality(hist[p].ok)
            /\ run[p].total_failed
                   = Cardinality(hist[p].bad) + Cardinality(hist[p].err)
            /\ run[p].pc # "done" =>
                   /\ run[p].pc = "upload"
                   /\ hist[p].uploads < Batches(Len(run[p].documents))
            /\ run[p].pc = "done" =>
                   /\ hist[p].uploads = Batches(Len(run[p].chunks))
                   /\ run[p].total_success + run[p].total_failed
                          = Len(run[p].chunks)
                   /\ run[p].result =
                          [returned |-> <<Cardinality(hist[p].ok),
                                          Len(run[p].chunks)
                                              - Cardinality(hist[p].ok)>>]

\* One batch raised, another reported one document succeeded and one failed.
C6_Witness ==
    /\ run["p1"].pc = "done"
    /\ hist["p1"].err # {}
    /\ hist["p1"].ok # {}
    /\ hist["p1"].bad # {}
    /\ run["p1"].result = [returned |-> <<1, 3>>]

(***************************************************************************)
(* C7 as stated: when the same chunks and vectors are reconciled a second  *)
(* time, the index is afterwards as it was after the first time (keys and  *)
(* content), with one entry per chunk of a source.                         *)
(***************************************************************************)
NoDuplicates ==
    \A k1, k2 \in DOMAIN store :
        /\ store[k1].sourcePath = store[k2].sourcePath
        /\ store[k1].chunkId = store[k2].chunkId
        => k1 = k2

UploadsSucceeded(p) ==
    /\ hist[p].raised = "None"
    /\ hist[p].bad = {} /\ hist[p].err = {}

C8_OwnSourceOnly_AsClaimed ==
    [][\A p \in Procs :
          run'[p] # run[p] =>
              \A k \in DOMAIN store :
                  (k \notin DOMAIN store' \/ store'[k] # store[k]) =>
                      store[k].sourcePath = run[p].source_path]_vars

(***************************************************************************)
(* C9: two invocations for one source whose index calls interleave can     *)
(* leave the source with entries that are neither invocation's documents,  *)
(* and only interleaving does that: when both have ended with every stale  *)
(* entry returned to their queries and the source's entries are neither's  *)
(* documents, their index calls overlapped.                                *)
(***************************************************************************)
DocsOf(p) == {run[p].documents[n] : n \in 1..Len(run[p].documents)}

NeitherRuns(s) ==
    LET entries == {store[k] : k \in EntriesOf(store, s)}
    IN  entries # DocsOf("p1") /\ entries # DocsOf("p2")

BothEnded ==
    /\ run["p1"].pc = "done" /\ run["p2"].pc = "done"
    /\ run["p1"].source_path = run["p2"].source_path
    /\ Cardinality(hist["p1"].stale) <= SEARCH_TOP
    /\ Cardinality(hist["p2"].stale) <= SEARCH_TOP

C9_MixedOnlyWhenInterleaved ==
    BothEnded /\ NeitherRuns(run["p1"].source_path) => overlapped = Procs

\* p2's entries survive beside p1's: p1 wrote less chunks than p2, after p2.
C9_Witness ==
    /\ BothEnded /\ NeitherRuns(run["p1"].source_path)
    /\ overlapped = Procs
    /\ \E k \in EntriesOf(store, run["p1"].source_path) : store[k] \in DocsOf("p1")
    /\ \E k \in EntriesOf(store, run["p1"].source_path) : store[k] \in DocsOf("p2")

(***************************************************************************)
(* C10: when embed_texts returns, it returns one vector per input text and *)
(* vector i is the one the service computed for (the text sent for) input  *)
(* i, in whatever order the responses listed their results; when no call   *)
(* failed, the service was called once per group of batch_size consecutive *)
(* texts, ceil(N / batch_size) times.                                      *)
(***************************************************************************)
C10_VectorsAligned ==
    emb.pc = "done" /\ emb.result # None =>
        LET N == Len(emb.texts)
            B == emb.batch_size
            vectors == emb.result[1]
        IN  /\ Len(vectors) = N
            /\ \A n \in 1..N :
                   vectors[n] = ServiceVector(clean_text(emb.texts[n]))
            /\ emb.failures = 0 /\ N > 0 =>
                   /\ Len(emb.sent) = (N + B - 1) \div B
                   /\ \A g \in 1..Len(emb.sent) :
                          emb.sent[g] =
                              [k \in 1..Min(B, N - (g - 1) * B) |->
                                  clean_text(emb.texts[(g - 1) * B + k])]

\* Three different texts in groups of two, a response out of order.
C10_Witness ==
    /\ emb.pc = "done" /\ emb.result # None
    /\ emb.failures = 0
    /\ emb.reordered
    /\ Len(emb.texts) = 3 /\ emb.batch_size = 2
    /\ Len(emb.sent) = 2
    /\ \A a, b \in 1..3 : a # b => emb.result[1][a] # emb.result[1][b]

(***************************************************************************)
(* What the claims about the retry loop speak of.                          *)
(***************************************************************************)
\* Group g of the call has ended without an answer.
Failed(g) ==
    /\ ~emb.groups[g].answered
    /\ g < Len(emb.groups) \/ emb.pc = "done"

\* An API error that is neither a rate limit nor a connection failure and
\* whose status is not 5xx.
Fatal(e) ==
    /\ e.type \notin {"RateLimitError", "APIConnectionError"}
    /\ e.status_code < 500 \/ e.status_code > 599

\* The number of groups embed_texts cuts its texts into.
GroupCount == (Len(emb.texts) + emb.batch_size - 1) \div emb.batch_size

(***************************************************************************)
(* C11: a group whose remote call failed retryably k times and was then    *)
(* answered took k waits, k is below MAX_RETRIES, and every wait after the *)
(* first is longer than the one before it; the call then returns the       *)
(* vectors in input order.                                                 *)
(***************************************************************************)
C11_RetryThenSuccess ==
    /\ \A g \in 1..Len(emb.groups) :
           emb.groups[g].answered =>
               LET k == emb.groups[g].calls - 1
                   w == emb.groups[g].waits
               IN  /\ k < MAX_RETRIES
                   /\ Len(w) = k
                   /\ \A n \in 2..Len(w) : w[n] > w[n - 1]
    /\ emb.pc = "done" /\ emb.result # None =>
           emb.result[1] = [n \in 1..Len(emb.texts) |->
                               ServiceVector(clean_text(emb.texts[n]))]

\* Two texts in one group: two failed calls, two waits (1 then 2), then the
\* answer, out of order.
C11_Witness ==
    /\ emb.pc = "done" /\ emb.result # None
    /\ Len(emb.texts) = 2 /\ emb.batch_size = 2
    /\ emb.groups[1].calls = 3
    /\ emb.groups[1].waits = <<INITIAL_RETRY_DELAY, 2 * INITIAL_RETRY_DELAY>>
    /\ emb.reordered
    /\ emb.result[1][1] # emb.result[1][2]

(***************************************************************************)
(* C12: no group is sent more than MAX_RETRIES times, whatever the types   *)
(* of its retryable errors; a group whose MAX_RETRIES calls all failed     *)
(* retryably ends the call with the error of its last call.                *)
(***************************************************************************)
C12_AttemptBudget ==
    \A g \in 1..Len(emb.groups) :
        /\ emb.groups[g].calls <= MAX_RETRIES
        /\ Len(emb.groups[g].waits) <= MAX_RETRIES
        /\ Failed(g) /\ emb.groups[g].calls = MAX_RETRIES
              /\ ~Fatal(emb.thrown[1]) =>
               /\ emb.pc = "done"
               /\ emb.raised = emb.thrown
               /\ emb.result = None

\* Three calls of one group failed with errors of different types, the last
\* of them a 503.
C12_Witness ==
    /\ emb.pc = "done"
    /\ Len(emb.groups) = 1
    /\ emb.groups[1].calls = MAX_RETRIES
    /\ emb.groups[1].mixed
    /\ emb.raised = Some([type |-> "APIError", status_code |-> 503])
    /\ emb.raised = emb.thrown

(***************************************************************************)
(* C13: a remote call that fails with an error that is not retryable ends  *)
(* the call at once with that error: it is not waited for and no further   *)
(* remote call is made.                                                    *)
(***************************************************************************)
C13_FatalAtOnce ==
    emb.thrown # None /\ Fatal(emb.thrown[1]) =>
        LET last == emb.groups[Len(emb.groups)]
        IN  /\ emb.pc = "done"
            /\ emb.raised = emb.thrown
            /\ emb.result = None
            /\ Len(last.waits) = last.calls - 1
            /\ Len(emb.waits) = emb.failures - 1

\* The first call of a group failed with status 400: no wait, two attempts
\* left unused.
C13_Witness ==
    /\ emb.pc = "done"
    /\ emb.raised = Some([type |-> "APIError", status_code |-> 400])
    /\ emb.groups[Len(emb.groups)].calls = 1
    /\ emb.groups[Len(emb.groups)].waits = <<>>
    /\ Len(emb.sent) = Len(emb.groups)

(***************************************************************************)
(* C14 as stated: when a group has failed, the other groups of the call    *)
(* are embedded all the same: every group of the call is sent and every    *)
(* group but the failed one is answered.                                   *)
(***************************************************************************)
C14_OnlyGroupAborts_AsClaimed ==
    \A g \in 1..Len(emb.groups) :
        Failed(g) /\ emb.pc = "done" =>
            /\ Len(emb.groups) = GroupCount
            /\ \A o \in 1..Len(emb.groups) : o # g => emb.groups[o].answered

(***************************************************************************)
(* C14 amended: a group that fails ends the whole embed_texts call with    *)
(* its error: it is the last group sent, the groups before it were         *)
(* answered, and the caller gets no vector, neither of the failed group    *)
(* nor of the groups answered before it.                                   *)
(***************************************************************************)
C14_FailureAbortsCall ==
    \A g \in 1..Len(emb.groups) :
        Failed(g) =>
            /\ emb.pc = "done"
            /\ emb.raised = emb.thrown /\ emb.raised # None
            /\ emb.result = None
            /\ g = Len(emb.groups)
            /\ \A o \in 1..(g - 1) : emb.groups[o].answered
            /\ Len(emb.all_embeddings) = emb.groups[g].offset

\* Three texts in groups of one: the first group was answered, the second
\* failed, the third was never sent.
C14_Witness ==
    /\ Len(emb.texts) = 3 /\ emb.batch_size = 1
    /\ Len(emb.groups) = 2
    /\ Failed(2)
    /\ emb.groups[1].answered
    /\ Len(emb.all_embeddings) = 1
    /\ emb.result = None /\ emb.raised # None

(***************************************************************************)
(* C15 as stated: the chunks TextSplitter.split returns are numbered       *)
(* 0, 1, ..., N-1 in order, without gaps.                                  *)
(***************************************************************************)
C15_ContiguousIds_AsClaimed ==
    spl.pc = "split" =>
        \A n \in 1..Len(spl.chunks) : spl.chunks[n].chunk_id = n - 1

(***************************************************************************)
(* C16 as stated: every chunk TextSplitter.split returns carries as        *)
(* total_chunks the number of chunks returned.                             *)
(***************************************************************************)
C16_TotalIsReturned_AsClaimed ==
    spl.pc = "split" =>
        \A n \in 1..Len(spl.chunks) :
            spl.chunks[n].total_chunks = Len(spl.chunks)

(***************************************************************************)
(* C17: the key of an index document depends on the source and the chunk   *)
(* index only: documents of one source and one chunk index have one key,   *)
(* whichever invocation built them from whichever content at whichever     *)
(* time, and documents of one source with different chunk indices have     *)
(* different keys.                                                         *)
(***************************************************************************)
C17_KeyDeterministic ==
    \A p, q \in Procs :
        \A n \in 1..Len(run[p].documents), m \in 1..Len(run[q].documents) :
            LET d == run[p].documents[n]
                e == run[q].documents[m]
            IN  d.sourcePath = e.sourcePath =>
                    (d.chunkId = e.chunkId <=> d.id = e.id)

\* Two invocations built documents of one source from different contents at
\* different times: chunk 0 has one key, chunk 1 another.
C17_Witness ==
    /\ Len(run["p1"].documents) >= 2 /\ Len(run["p2"].documents) >= 2
    /\ run["p1"].source_path = run["p2"].source_path
    /\ run["p1"].documents[1].content # run["p2"].documents[1].content
    /\ run["p1"].documents[1].processedAt # run["p2"].documents[1].processedAt
    /\ run["p1"].documents[1].id = run["p2"].documents[1].id
    /\ run["p1"].documents[1].id # run["p1"].documents[2].id

\* The trailing min(n, length) characters of a chunk.
Trailing(chunk, n) ==
    [k \in 1..Min(n, Len(chunk)) |-> chunk[Len(chunk) - Min(n, Len(chunk)) + k]]

\* A chunk begins with the characters of prefix.
StartsWith(chunk, prefix) ==
    /\ Len(prefix) <= Len(chunk)
    /\ \A k \in 1..Len(prefix) : chunk[k] = prefix[k]

(***************************************************************************)
(* C18: a chunk of the merge pass is longer than chunk_size only when it   *)
(* is a seeded buffer to which nothing was added - the overlap of the      *)
(* chunk before it, a blank and one segment - and it is then at most       *)
(* chunk_size plus that segment long; every segment is at most chunk_size  *)
(* long.  (It holds for the final chunk as well.)                          *)
(***************************************************************************)
C18_MergedSizeBound ==
    spl.pc = "split" =>
        /\ \A n \in 1..Len(spl.raw_chunks) :
               Len(spl.raw_chunks[n]) <= spl.chunk_size
        /\ \A k \in 1..Len(spl.merged_chunks) :
               Len(spl.merged_chunks[k]) > spl.chunk_size =>
                   /\ k > 1
                   /\ \E n \in 1..Len(spl.raw_chunks) :
                          /\ spl.merged_chunks[k] =
                                 Trailing(spl.merged_chunks[k - 1],
                                          spl.chunk_overlap)
                                     \o <<" ">> \o spl.raw_chunks[n]
                          /\ Len(spl.merged_chunks[k])
                                 <= spl.chunk_size + Len(spl.raw_chunks[n])

\* A merged chunk that is not the last is longer than chunk_size.
C18_Witness ==
    /\ spl.pc = "split"
    /\ \E k \in 1..(Len(spl.merged_chunks) - 1) :
           Len(spl.merged_chunks[k]) > spl.chunk_size

(***************************************************************************)
(* C19 as stated: of two consecutive returned chunks, the second begins    *)
(* with the trailing min(chunk_overlap, length) characters of the first.   *)
(***************************************************************************)
C19_OverlapPrefix_AsClaimed ==
    spl.pc = "split" =>
        \A n \in 1..(Len(spl.chunks) - 1) :
            StartsWith(spl.chunks[n + 1].content,
                       Trailing(spl.chunks[n].content, spl.chunk_overlap))

(***************************************************************************)
(* C19 amended: every chunk of the merge pass after the first begins with  *)
(* the trailing min(chunk_overlap, length) characters of the merged chunk  *)
(* before it, followed by a blank; a returned chunk is its merged chunk    *)
(* with the whitespace at both ends removed, so the statement about the    *)
(* returned chunks i and i+1 holds when they come from consecutive merged  *)
(* chunks and that overlap neither begins nor ends with whitespace.        *)
(***************************************************************************)
C19_OverlapPrefix ==
    spl.pc = "split" =>
        /\ \A k \in 1..(Len(spl.merged_chunks) - 1) :
               StartsWith(spl.merged_chunks[k + 1],
                          Trailing(spl.merged_chunks[k], spl.chunk_overlap)
                              \o <<" ">>)
        /\ \A n \in 1..Len(spl.chunks) :
               spl.chunks[n].content =
                   strip(spl.merged_chunks[spl.chunks[n].chunk_id + 1])
        /\ \A n \in 1..(Len(spl.chunks) - 1) :
               LET o == Trailing(spl.merged_chunks[spl.chunks[n].chunk_id + 1],
                                 spl.chunk_overlap)
               IN  /\ spl.chunks[n + 1].chunk_id = spl.chunks[n].chunk_id + 1
                   /\ ~Whitespace(o[1]) /\ ~Whitespace(o[Len(o)])
                   => /\ Trailing(spl.chunks[n].content, spl.chunk_overlap) = o
                      /\ StartsWith(spl.chunks[n + 1].content, o)

\* Three returned chunks: the second begins with the two trailing
\* characters of the first, which are no whitespace.
C19_Witness ==
    /\ spl.pc = "split"
    /\ Len(spl.chunks) = 3
    /\ spl.chunk_overlap = 2
    /\ LET o == Trailing(spl.chunks[1].content, 2)
       IN  /\ Len(o) = 2 /\ ~Whitespace(o[1]) /\ ~Whitespace(o[2])
           /\ StartsWith(spl.chunks[2].content, o)
           /\ spl.merged_chunks[2] # spl.chunks[2].content

\* The characters of a text that are no whitespace, in order.
NonWhitespace(text) == SelectSeq(text, LAMBDA c : ~Whitespace(c))

\* The chunks from the k-th on, concatenated in order, each without the
\* overlap it repeats from the chunk before it.
RECURSIVE WithoutOverlaps(_, _, _)
WithoutOverlaps(chunks, k, chunk_overlap) ==
    IF k > Len(chunks) THEN <<>>
    ELSE LET repeated == IF k = 1 THEN 0
                         ELSE Len(Trailing(chunks[k - 1], chunk_overlap))
         IN  SubSeq(chunks[k], repeated + 1, Len(chunks[k]))
                 \o WithoutOverlaps(chunks, k + 1, chunk_overlap)

(***************************************************************************)
(* C20 as stated: the chunks, each after the first without the overlap it  *)
(* repeats from the chunk before it, concatenated in order, have exactly   *)
(* the non-whitespace characters of the text, in the same order.           *)
(***************************************************************************)
C20_NoDataLoss_AsClaimed ==
    spl.pc = "split" =>
        NonWhitespace(WithoutOverlaps(spl.merged_chunks, 1, spl.chunk_overlap))
            = NonWhitespace(spl.text)

(***************************************************************************)
(* C21: a TextSplitter whose overlap is not below its chunk size is not    *)
(* constructed: the constructor raises ValueError and no text is ever      *)
(* split by it; a splitter that exists, and one that has split a text, has *)
(* chunk_overlap < chunk_size.                                             *)
(***************************************************************************)
C21_OverlapBelowSize ==
    /\ spl.pc \in {"ready", "split"} =>
           /\ spl.chunk_overlap < spl.chunk_size
           /\ spl.raised = None
    /\ spl.pc = "rejected" =>
           /\ spl.chunk_overlap >= spl.chunk_size
           /\ spl.raised = Some("ValueError")
           /\ spl.text = <<>> /\ spl.merged_chunks = <<>> /\ spl.chunks = <<>>
    /\ \A s \in 1..MaxSize, o \in 1..MaxSize :
           spl.passed = <<Some(s), Some(o)>> /\ o >= s => spl.pc = "rejected"

\* The constructor was passed an overlap equal to the chunk size and raised.
C21_Witness ==
    /\ spl.pc = "rejected"
    /\ spl.passed = <<Some(2), Some(2)>>

(***************************************************************************)
(* C22 as stated: every failure the index reports during an invocation is  *)
(* raised, counted in a returned failure count, or logged: a call that     *)
(* errors ends the invocation with that error, and every item a delete or  *)
(* an upload call reports as failed is logged or counted.                  *)
(***************************************************************************)
C22_NoSilentFailure_AsClaimed ==
    \A p \in Procs :
        /\ hist[p].raised # "None" /\ run[p].pc = "done" =>
               run[p].result.error_message = Some(hist[p].raised)
        /\ \A k \in hist[p].undeleted \cup hist[p].bad \cup hist[p].err :
               k \in hist[p].logged \cup hist[p].counted

(***************************************************************************)
(* C23 as stated: when the caller asks a running embed_texts or            *)
(* upsert_chunks call to stop while group or batch j is in flight, the     *)
(* call dispatches no group or batch after j.                              *)
(***************************************************************************)
C23_StopsAtBoundary_AsClaimed ==
    /\ emb.cancel # None => Len(emb.groups) <= emb.cancel[1]
    /\ \A p \in Procs :
           hist[p].cancel # None => hist[p].uploads <= hist[p].cancel[1]

(***************************************************************************)
(* C24: in every group the k-th wait lasts                                 *)
(* min(INITIAL_RETRY_DELAY * 2^(k-1), MAX_RETRY_DELAY), which is never     *)
(* above MAX_RETRY_DELAY (nor is the delay after any wait up to the        *)
(* ceiling); the attempt counter and the delay are the group's own: while  *)
(* a group is being sent they are what its own failures made them,         *)
(* whatever the groups before it went through.                             *)
(***************************************************************************)
C24_BackoffPerGroup ==
    /\ \A g \in 1..Len(emb.groups) :
           \A k \in 1..Len(emb.groups[g].waits) :
               /\ emb.groups[g].waits[k] =
                      Min(INITIAL_RETRY_DELAY * 2^(k - 1), MAX_RETRY_DELAY)
               /\ emb.groups[g].waits[k] <= MAX_RETRY_DELAY
    /\ \A d \in 1..MAX_RETRY_DELAY :
           next_delay(d) <= MAX_RETRY_DELAY /\ next_delay(d) >= d
    /\ emb.pc = "call" =>
           LET own == emb.groups[Len(emb.groups)]
           IN  /\ emb.attempt = Len(own.waits)
               /\ emb.attempt = own.calls
               /\ emb.delay =
                      Min(INITIAL_RETRY_DELAY * 2^Len(own.waits), MAX_RETRY_DELAY)

\* A group that waited 1 and 2 and was answered, then a group that waited
\* 1, 2 and 4.
C24_Witness ==
    /\ Len(emb.groups) = 2
    /\ emb.groups[1].waits = <<1, 2>> /\ emb.groups[1].answered
    /\ emb.groups[2].waits = <<1, 2, 4>>

\* The number of remote calls made for the groups before group g.
RECURSIVE CallsBefore(_)
CallsBefore(g) ==
    IF g <= 1 THEN 0 ELSE CallsBefore(g - 1) + emb.groups[g - 1].calls

\* The texts of group g.
GroupTexts(g) ==
    SubSeq(emb.texts, emb.groups[g].offset + 1,
           Min(emb.groups[g].offset + emb.batch_size, Len(emb.texts)))

(***************************************************************************)
(* C25: every list sent for a group is as long as the group, and its entry *)
(* i is a single space when input i is empty or blank, the first MAX_CHARS *)
(* characters of input i when input i is longer than MAX_CHARS, and input  *)
(* i itself otherwise.                                                     *)
(***************************************************************************)
C25_SanitizedInPlace ==
    \A g \in 1..Len(emb.groups) :
        \A c \in 1..emb.groups[g].calls :
            LET sent == emb.sent[CallsBefore(g) + c]
                texts == GroupTexts(g)
            IN  /\ Len(sent) = Len(texts)
                /\ \A i \in 1..Len(texts) :
                       LET text == texts[i]
                           blank == \A n \in 1..Len(text) :
                                        text[n] \in {" ", "\n", "\t"}
                       IN  /\ blank => sent[i] = <<" ">>
                           /\ ~blank /\ Len(text) > MAX_CHARS =>
                                  /\ Len(sent[i]) = MAX_CHARS
                                  /\ \A n \in 1..MAX_CHARS : sent[i][n] = text[n]
                           /\ ~blank /\ Len(text) <= MAX_CHARS => sent[i] = text

\* A group of an empty text, a text longer than MAX_CHARS and a short text,
\* sent in one request.
C25_Witness ==
    /\ Len(emb.sent) >= 1
    /\ Len(emb.texts) = 3
    /\ emb.texts[1] = <<>>
    /\ Len(emb.texts[2]) > MAX_CHARS
    /\ emb.texts[3] = <<"a">>
    /\ Len(emb.sent[1]) = 3
    /\ emb.sent[1][1] = <<" ">>

(***************************************************************************)
(* C26: an invocation of process issues an index call only when its steps  *)
(* before step 5 have produced at least one chunk and one vector per       *)
(* chunk; an invocation that ends before step 5 (unsupported file type,    *)
(* failed download or extraction, blank text, no chunk, failed embedding)  *)
(* has issued no index call and leaves the index as it was, returning a    *)
(* failed result.                                                          *)
(***************************************************************************)
C26_IndexAfterEmbedding ==
    [][\A p \in Procs :
           /\ hist'[p] # hist[p] =>
                  /\ run[p].pc \in {"query", "delete", "upload"}
                  /\ Len(run[p].chunks) >= 1
                  /\ run[p].embeddings # None
                  /\ Len(run[p].embeddings[1]) = Len(run[p].chunks)
           /\ run[p].pc = "begin" /\ run'[p].pc = "done" =>
                  /\ store' = store
                  /\ hist'[p] = IdleHist
                  /\ run'[p].result.success = FALSE
                  /\ \E f \in PipelineFailures :
                         run'[p].result.error_message = Some(f)]_vars

\* An invocation whose embedding failed has ended; the entries its source
\* had are in the index and no index call was issued.
C26_Witness ==
    /\ run["p1"].pc = "done"
    /\ run["p1"].result.error_message = Some("embedding failed")
    /\ search(store, run["p1"].source_path) # {}
    /\ hist["p1"] = IdleHist

(***************************************************************************)
(* C27: every chunk TextSplitter.split returns is at most                  *)
(* chunk_size + chunk_overlap + 1 characters long, every segment of the    *)
(* recursive split being at most chunk_size characters long.               *)
(***************************************************************************)
C27_ChunkLengthBound ==
    spl.pc = "split" =>
        /\ \A n \in 1..Len(spl.raw_chunks) :
               Len(spl.raw_chunks[n]) <= spl.chunk_size
        /\ \A k \in 1..Len(spl.merged_chunks) :
               Len(spl.merged_chunks[k]) <= spl.chunk_size + spl.chunk_overlap + 1
        /\ \A n \in 1..Len(spl.chunks) :
               Len(spl.chunks[n].content) <= spl.chunk_size + spl.chunk_overlap + 1

\* A returned chunk of exactly chunk_size + chunk_overlap + 1 characters.
C27_Witness ==
    /\ spl.pc = "split"
    /\ \E n \in 1..Len(spl.chunks) :
           Len(spl.chunks[n].content) = spl.chunk_size + spl.chunk_overlap + 1

(***************************************************************************)
(* C28 as stated: a TextSplitter constructed with a chunk_size s and a     *)
(* chunk_overlap o, both passed, with 0 <= o < s, is accepted and has and  *)
(* splits with exactly these two values.                                   *)
(***************************************************************************)
C28_ExplicitSizesUsed_AsClaimed ==
    \A s \in 1..MaxSize, o \in 0..MaxSize :
        spl.passed = <<Some(s), Some(o)>> /\ o < s =>
            /\ spl.pc \in {"ready", "split"}
            /\ spl.chunk_size = s
            /\ spl.chunk_overlap = o

(***************************************************************************)
(* C29 as stated: every wait of the retry loop is followed by another call *)
(* for the same group: a group that was answered waited once per failed    *)
(* call, and a group that ended in an error with its MAX_RETRIES calls     *)
(* used up waited once less than it was called.                            *)
(***************************************************************************)
C29_WaitThenRetry_AsClaimed ==
    \A g \in 1..Len(emb.groups) :
        /\ emb.groups[g].answered =>
               Len(emb.groups[g].waits) = emb.groups[g].calls - 1
        /\ Failed(g) /\ emb.groups[g].calls = MAX_RETRIES
              /\ ~Fatal(emb.thrown[1]) =>
               Len(emb.groups[g].waits) = emb.groups[g].calls - 1

\* The invocation p of process has returned or raised.
Ended(p) == run[p].pc = "done" /\ run[p].entry = "process"

\* What process returns for what its index calls were answered.
ResultAsClaimed(p) ==
    LET result == run[p].result
        upserted == /\ hist[p].raised = "None"
                    /\ hist[p].uploads >= 1
    IN  /\ "raised" \notin DOMAIN result
        /\ ~result.success => result.error_message # None
        /\ result.success <=>
               upserted /\ hist[p].bad \cup hist[p].err = {}
        /\ result.success =>
               /\ result.chunks_indexed = Cardinality(hist[p].ok)
               /\ result.chunks_indexed = run[p].total_success
               /\ result.error_message = None

(***************************************************************************)
(* C30 as stated: process never raises; a failure of any step is returned  *)
(* as a result with success = false and an error message; success is true  *)
(* exactly when the upsert step was reached and no document failed, and    *)
(* chunks_indexed is then the number of documents that succeeded.          *)
(***************************************************************************)
C30_NeverRaises_AsClaimed ==
    \A p \in Procs : Ended(p) => ResultAsClaimed(p)

(***************************************************************************)
(* C30 amended: the same for every invocation whose blob_url is a string   *)
(* (blob_url.split runs before the try block, so a blob_url that is no     *)
(* string makes process raise AttributeError).                             *)
(***************************************************************************)
C30_NeverRaises ==
    \A p \in Procs :
        Ended(p) =>
            IF run[p].source_path # None
            THEN ResultAsClaimed(p)
            ELSE run[p].result = [raised |-> "AttributeError"]

\* An invocation reached the upsert step, the index failed one document and
\* wrote another, and process returned success = false with the number of
\* documents written.
C30_Witness ==
    /\ Ended("p1")
    /\ run["p1"].source_path # None
    /\ hist["p1"].raised = "None"
    /\ hist["p1"].bad # {}
    /\ hist["p1"].ok # {}
    /\ run["p1"].result.success = FALSE
    /\ run["p1"].result.chunks_indexed = Cardinality(hist["p1"].ok)

====
